---- MODULE Spec2Model ----
(***************************************************************************)
(* Model of ic_stat_live.py: the weekly iron-condor logger.  One run of    *)
(* the script loads the CSV ledger, and either opens a trade (no OPEN row  *)
(* found) or evaluates the OPEN row and appends a CLOSED row.              *)
(*                                                                         *)
(* Numbers.  The script computes with Python floats.  A float is modelled  *)
(* as an exact rational [k |-> "num", n, d] in lowest terms with d > 0, or *)
(* as NaN.  Rounding of IEEE doubles is not modelled; NaN and its          *)
(* propagation through arithmetic, comparison and the CSV file are.        *)
(* The "timestamp" column (datetime.now()) is left out of the rows: no     *)
(* branch of the script reads it.                                          *)
(***************************************************************************)
EXTENDS Integers, Sequences, FiniteSets, TLC

VARIABLES
    ledger,       \* the rows of ic_live_trades.csv, as text cells; <<>> = no file
    capital,      \* __main__: capital returned by load_state in the last run
    open_trade,   \* __main__: open_trade returned by load_state in the last run
    spot,         \* the result of fetch_live_price() in the last run
    report,       \* the message printed by the last run
    fn_pc,        \* builder/evaluator harness: "off", "input", "built", "evaluated"
    fn_capital,   \* harness: capital passed to enter_trade and exit_logic
    fn_spot,      \* harness: price seen by enter_trade
    fn_row,       \* harness: row returned by enter_trade, as read back from the file
    fn_exit_spot, \* harness: price seen by exit_logic
    fn_exit,      \* harness: row returned by exit_logic
    ov_pc,        \* overlapping runs: where each run is, "idle" or "loaded"
    ov_loaded,    \* overlapping runs: what load_state returned to each run
    ov_overlap    \* overlapping runs: a run has loaded while another was between
                  \* its load and its save

vars == <<ledger, capital, open_trade, spot, report,
          fn_pc, fn_capital, fn_spot, fn_row, fn_exit_spot, fn_exit,
          ov_pc, ov_loaded, ov_overlap>>

runVars == <<ledger, capital, open_trade, spot, report>>
fnVars == <<fn_pc, fn_capital, fn_spot, fn_row, fn_exit_spot, fn_exit>>
ovVars == <<ov_pc, ov_loaded, ov_overlap>>

-----------------------------------------------------------------------------
(* Float values *)

Abs(i) == IF i < 0 THEN -i ELSE i

RECURSIVE Gcd(_, _)
Gcd(a, b) == IF b = 0 THEN a ELSE Gcd(b, a % b)

\* the rational n/d (d # 0) in lowest terms with a positive denominator
Rat(n, d) ==
    LET g == Gcd(Abs(n), Abs(d))
        s == IF d < 0 THEN -1 ELSE 1
    IN [k |-> "num", n |-> s * (n \div g), d |-> s * (d \div g)]

Num(i) == [k |-> "num", n |-> i, d |-> 1]

\* float("nan"): what pandas gives for an empty numeric cell
NaN == [k |-> "nan", n |-> 0, d |-> 1]

\* the empty string "" that enter_trade puts in the unset fields, and the
\* empty cell of the CSV file
Empty == [k |-> "empty", n |-> 0, d |-> 1]

\* Python None
None == [k |-> "None"]

IsNum(x) == x.k = "num"

\* float addition, subtraction, multiplication, division: NaN is absorbing
Add(x, y) ==
    IF IsNum(x) /\ IsNum(y)
    THEN LET g == Gcd(x.d, y.d)
         IN Rat(x.n * (y.d \div g) + y.n * (x.d \div g), (x.d \div g) * y.d)
    ELSE NaN

Neg(x) == IF IsNum(x) THEN [k |-> "num", n |-> -x.n, d |-> x.d] ELSE NaN

Sub(x, y) == Add(x, Neg(y))

Mul(x, y) ==
    IF IsNum(x) /\ IsNum(y)
    THEN LET g1 == Gcd(Abs(x.n), y.d)
             g2 == Gcd(Abs(y.n), x.d)
         IN IF x.n = 0 \/ y.n = 0 THEN Num(0)
            ELSE Rat((x.n \div g1) * (y.n \div g2), (x.d \div g2) * (y.d \div g1))
    ELSE NaN

\* y is never zero where the script divides
Div(x, y) ==
    IF IsNum(x) /\ IsNum(y) /\ y.n # 0
    THEN Mul(x, Rat(y.d, y.n))
    ELSE NaN

\* float comparison: every comparison with NaN is False
Lt(x, y) == IsNum(x) /\ IsNum(y) /\ x.n * y.d < y.n * x.d
Le(x, y) == IsNum(x) /\ IsNum(y) /\ x.n * y.d <= y.n * x.d
Gt(x, y) == Lt(y, x)
Ge(x, y) == Le(y, x)

-----------------------------------------------------------------------------
(* USER PARAMETERS *)

SHORT_STRIKE_PCT == Rat(25, 1000)
WING_WIDTH_PCT == Rat(5, 100)
CREDIT_PCT == Rat(12, 1000)
DEPLOY_FRACTION == Rat(60, 100)
INITIAL_CAPITAL == Num(1000000)

-----------------------------------------------------------------------------
(* Bounds and inputs *)

\* the runs stop once the ledger holds MaxRows rows
MaxRows == 3

\* index levels the price feed may return
PriceTicks == {18000, 18500, 19500, 20000, 20500, 21000, 21500, 22000}

Prices == {Num(i) : i \in PriceTicks}

\* fetch_live_price(): a price, or None when the history frame is empty
Fetched == Prices \cup {None}

-----------------------------------------------------------------------------
(* The CSV file *)

NumericColumns ==
    {"entry_price", "short_call", "long_call", "short_put", "long_put",
     "credit", "exit_price", "pnl", "capital_after"}

\* DataFrame.to_csv: a number is written in decimal, "" and NaN both as an
\* empty cell
ToCsvCell(x) == IF IsNum(x) THEN x ELSE Empty

\* pandas.read_csv: an empty cell of a numeric column is read as NaN
FromCsvCell(x) == IF IsNum(x) THEN x ELSE NaN

ToCsvRow(row) ==
    [c \in DOMAIN row |-> IF c \in NumericColumns THEN ToCsvCell(row[c]) ELSE row[c]]

FromCsvRow(line) ==
    [c \in DOMAIN line |-> IF c \in NumericColumns THEN FromCsvCell(line[c]) ELSE line[c]]

\* pd.read_csv(CSV_FILE): the data frame, one row per line of the file
read_csv(file) == [i \in 1..Len(file) |-> FromCsvRow(file[i])]

\* save_trade_row with mode="w": the file is rewritten with the one row
save_trade_row_overwrite(file, row) == <<ToCsvRow(row)>>

\* save_trade_row(row): the row is appended to the file (mode="a"); the file
\* and its header are created by the first call
save_trade_row(file, row) == Append(file, ToCsvRow(row))

\* load_state whose OPEN filter never matches (e.g. status compared with "open")
load_state_no_open(file) ==
    IF file = <<>>
    THEN [capital |-> INITIAL_CAPITAL, open_trade |-> None]
    ELSE [capital |-> read_csv(file)[Len(file)].capital_after, open_trade |-> None]

\* load_state(): (capital, open_trade); the data frame itself is not used
\* by the caller.  A file that exists always holds at least one row.
load_state(file) ==
    IF file = <<>>
    THEN [capital |-> INITIAL_CAPITAL, open_trade |-> None]
    ELSE LET df == read_csv(file)
             cap == df[Len(df)].capital_after
             opens == SelectSeq(df, LAMBDA r : r.status = "OPEN")
         IN IF opens # <<>>
            THEN [capital |-> cap, open_trade |-> opens[Len(opens)]]
            ELSE [capital |-> cap, open_trade |-> None]

-----------------------------------------------------------------------------
(* ENTRY LOGIC *)

One == Num(1)

\* enter_trade with the long put computed like the long call, above its short strike
enter_trade_put_above(cap, price) ==
    IF price = None THEN None
    ELSE LET notional == Mul(cap, DEPLOY_FRACTION)
             short_call == Mul(price, Add(One, SHORT_STRIKE_PCT))
             short_put == Mul(price, Sub(One, SHORT_STRIKE_PCT))
             long_call == Mul(short_call,
                              Add(One, Div(WING_WIDTH_PCT, Add(One, SHORT_STRIKE_PCT))))
             long_put == Mul(short_put,
                             Add(One, Div(WING_WIDTH_PCT, Add(One, SHORT_STRIKE_PCT))))
             credit == Mul(CREDIT_PCT, notional)
         IN [entry_price |-> price, short_call |-> short_call, long_call |-> long_call,
             short_put |-> short_put, long_put |-> long_put, credit |-> credit,
             exit_price |-> Empty, pnl |-> Empty, capital_after |-> Empty,
             status |-> "OPEN"]

\* enter_trade with the wings taken as a percentage of the short strikes,
\* without the division by (1 +- SHORT_STRIKE_PCT)
enter_trade_flat_wing(cap, price) ==
    IF price = None THEN None
    ELSE LET notional == Mul(cap, DEPLOY_FRACTION)
             short_call == Mul(price, Add(One, SHORT_STRIKE_PCT))
             short_put == Mul(price, Sub(One, SHORT_STRIKE_PCT))
             long_call == Mul(short_call, Add(One, WING_WIDTH_PCT))
             long_put == Mul(short_put, Sub(One, WING_WIDTH_PCT))
             credit == Mul(CREDIT_PCT, notional)
         IN [entry_price |-> price, short_call |-> short_call, long_call |-> long_call,
             short_put |-> short_put, long_put |-> long_put, credit |-> credit,
             exit_price |-> Empty, pnl |-> Empty, capital_after |-> Empty,
             status |-> "OPEN"]

\* enter_trade with the signs of the short strikes exchanged: the short call
\* below the spot and the short put above it
enter_trade_crossed_shorts(cap, price) ==
    IF price = None THEN None
    ELSE LET notional == Mul(cap, DEPLOY_FRACTION)
             short_call == Mul(price, Sub(One, SHORT_STRIKE_PCT))
             short_put == Mul(price, Add(One, SHORT_STRIKE_PCT))
             long_call == Mul(short_call,
                              Add(One, Div(WING_WIDTH_PCT, Add(One, SHORT_STRIKE_PCT))))
             long_put == Mul(short_put,
                             Sub(One, Div(WING_WIDTH_PCT, Sub(One, SHORT_STRIKE_PCT))))
             credit == Mul(CREDIT_PCT, notional)
         IN [entry_price |-> price, short_call |-> short_call, long_call |-> long_call,
             short_put |-> short_put, long_put |-> long_put, credit |-> credit,
             exit_price |-> Empty, pnl |-> Empty, capital_after |-> Empty,
             status |-> "OPEN"]

\* enter_trade(capital), price being what fetch_live_price() returned
enter_trade(cap, price) ==
    IF price = None THEN None
    ELSE LET notional == Mul(cap, DEPLOY_FRACTION)
             short_call == Mul(price, Add(One, SHORT_STRIKE_PCT))
             short_put == Mul(price, Sub(One, SHORT_STRIKE_PCT))
             long_call == Mul(short_call,
                              Add(One, Div(WING_WIDTH_PCT, Add(One, SHORT_STRIKE_PCT))))
             long_put == Mul(short_put,
                             Sub(One, Div(WING_WIDTH_PCT, Sub(One, SHORT_STRIKE_PCT))))
             credit == Mul(CREDIT_PCT, notional)
         IN [entry_price |-> price, short_call |-> short_call, long_call |-> long_call,
             short_put |-> short_put, long_put |-> long_put, credit |-> credit,
             exit_price |-> Empty, pnl |-> Empty, capital_after |-> Empty,
             status |-> "OPEN"]

-----------------------------------------------------------------------------
(* EXIT LOGIC *)

Two == Num(2)

\* max_loss of exit_logic
max_loss_of(trade) ==
    Sub(Mul(Mul(WING_WIDTH_PCT, trade.entry_price), DEPLOY_FRACTION),
        Div(trade.credit, Two))

\* the pnl of exit_logic after the call-side check, before the put-side check
call_side_pnl(trade, price) ==
    LET sc == trade.short_call
        lc == trade.long_call
        credit == trade.credit
        max_loss == max_loss_of(trade)
    IN IF Gt(price, sc)
       THEN IF Ge(price, lc)
            THEN Neg(max_loss)
            ELSE Add(credit, Mul(Neg(Div(Sub(price, sc), Sub(lc, sc))), max_loss))
       ELSE credit

\* exit_pnl with the full-loss test of the call side strict (spot > lc)
exit_pnl_strict_full(trade, price) ==
    LET sc == trade.short_call
        sp == trade.short_put
        lc == trade.long_call
        lp == trade.long_put
        credit == trade.credit
        max_loss == max_loss_of(trade)
        pnl0 == credit
        pnl1 == IF Gt(price, sc)
                THEN IF Gt(price, lc)
                     THEN Neg(max_loss)
                     ELSE Add(credit, Mul(Neg(Div(Sub(price, sc), Sub(lc, sc))), max_loss))
                ELSE pnl0
        pnl2 == IF Lt(price, sp)
                THEN IF Le(price, lp)
                     THEN Neg(max_loss)
                     ELSE Add(credit, Mul(Neg(Div(Sub(sp, price), Sub(sp, lp))), max_loss))
                ELSE pnl1
    IN pnl2

\* the pnl of exit_logic: the default, then the call-side check, then the
\* put-side check, each overwriting the value before it
exit_pnl(trade, price) ==
    LET sc == trade.short_call
        sp == trade.short_put
        lc == trade.long_call
        lp == trade.long_put
        credit == trade.credit
        max_loss == max_loss_of(trade)
        pnl0 == credit
        pnl1 == IF Gt(price, sc)
                THEN IF Ge(price, lc)
                     THEN Neg(max_loss)
                     ELSE Add(credit, Mul(Neg(Div(Sub(price, sc), Sub(lc, sc))), max_loss))
                ELSE pnl0
        pnl2 == IF Lt(price, sp)
                THEN IF Le(price, lp)
                     THEN Neg(max_loss)
                     ELSE Add(credit, Mul(Neg(Div(Sub(sp, price), Sub(sp, lp))), max_loss))
                ELSE pnl1
    IN pnl2

\* closed_row that stores the spot in entry_price instead of exit_price
closed_row_reprice(trade, cap, price) ==
    [trade EXCEPT !.entry_price = price,
                  !.pnl = exit_pnl(trade, price),
                  !.capital_after = Add(cap, exit_pnl(trade, price)),
                  !.status = "CLOSED"]

\* the row exit_logic builds: a copy of open_trade with the closure fields set
closed_row(trade, cap, price) ==
    [trade EXCEPT !.exit_price = price,
                  !.pnl = exit_pnl(trade, price),
                  !.capital_after = Add(cap, exit_pnl(trade, price)),
                  !.status = "CLOSED"]

\* exit_logic that closes only on a breach and otherwise lets the trade continue
exit_logic_on_breach(trade, cap, price) ==
    IF price = None \/ (Le(trade.short_put, price) /\ Le(price, trade.short_call))
    THEN [row |-> None, new_capital |-> None]
    ELSE [row |-> closed_row(trade, cap, price),
          new_capital |-> Add(cap, exit_pnl(trade, price))]

\* exit_logic that falls back to the entry price when no price is fetched
exit_logic_last_known(trade, cap, price) ==
    LET p == IF price = None THEN trade.entry_price ELSE price
    IN [row |-> closed_row(trade, cap, p),
        new_capital |-> Add(cap, exit_pnl(trade, p))]

\* exit_logic(open_trade, capital), price being what fetch_live_price() returned
exit_logic(trade, cap, price) ==
    IF price = None
    THEN [row |-> None, new_capital |-> None]
    ELSE [row |-> closed_row(trade, cap, price),
          new_capital |-> Add(cap, exit_pnl(trade, price))]

-----------------------------------------------------------------------------
(* MAIN: one execution of the script *)

\* the processes that may run the script at the same time
Runs == {1, 2}

\* no run of the script is in progress
OvIdle ==
    /\ ov_pc = [r \in Runs |-> "idle"]
    /\ ov_loaded = [r \in Runs |-> None]
    /\ ov_overlap = FALSE

Init ==
    /\ ledger = <<>>
    /\ capital = None
    /\ open_trade = None
    /\ spot = None
    /\ report = "not run"
    /\ fn_pc = "off"
    /\ fn_capital = None
    /\ fn_spot = None
    /\ fn_row = None
    /\ fn_exit_spot = None
    /\ fn_exit = None
    /\ OvIdle

\* the whole of __main__, price being the result of fetch_live_price() in
\* enter_trade or exit_logic.  (The second fetch of the "Trade continues"
\* message is only printed.)
Main(price) ==
    /\ Len(ledger) < MaxRows
    /\ LET st == load_state(ledger)
       IN /\ capital' = st.capital
          /\ open_trade' = st.open_trade
          /\ spot' = price
          /\ IF st.open_trade = None
             THEN LET new_trade == enter_trade(st.capital, price)
                  IN IF new_trade # None
                     THEN /\ ledger' = save_trade_row(ledger, new_trade)
                          /\ report' = "New trade opened"
                     ELSE /\ ledger' = ledger
                          /\ report' = "Failed to fetch price."
             ELSE LET ex == exit_logic(st.open_trade, st.capital, price)
                  IN IF ex.row # None
                     THEN /\ ledger' = save_trade_row(ledger, ex.row)
                          /\ report' = "Trade closed"
                     ELSE /\ ledger' = ledger
                          /\ report' = "Trade continues"
    /\ UNCHANGED fnVars
    /\ UNCHANGED ovVars

Next == \E price \in Fetched : Main(price)

Spec == Init /\ [][Next]_vars

-----------------------------------------------------------------------------
(* Properties of the runs (specification Spec).  In an action formula the  *)
(* unprimed ledger is the file a run starts from and the primed variables  *)
(* are what the run loaded, fetched and left behind.                       *)

IdentityColumns ==
    {"entry_price", "short_call", "long_call", "short_put", "long_put", "credit"}

SameTrade(r1, r2) == \A c \in IdentityColumns : r1[c] = r2[c]

LastStatus(file) == IF file = <<>> THEN "none" ELSE file[Len(file)].status

\* the run appended exactly one row and kept the rows before it
AppendedOne(before, after) ==
    /\ Len(after) = Len(before) + 1
    /\ SubSeq(after, 1, Len(before)) = before

\* C1: once a run has appended the CLOSED row, the next run loads no open
\* trade and, when it gets a price, appends a new OPEN row instead of
\* evaluating the closed trade again.
C1_ClosedReturnsToNoOpen ==
    [][LastStatus(ledger) = "CLOSED"
         => /\ open_trade' = None
            /\ spot' # None => /\ AppendedOne(ledger, ledger')
                               /\ LastStatus(ledger') = "OPEN"]_vars

\* the current capital as section 4.1 defines it: capital_after of the most
\* recent CLOSED record, INITIAL_CAPITAL when there is none
LastClosedCapital(file) ==
    LET closed == SelectSeq(read_csv(file), LAMBDA r : r.status = "CLOSED")
    IN IF closed = <<>> THEN INITIAL_CAPITAL ELSE closed[Len(closed)].capital_after

\* C2: for every reachable ledger, load returns the capital_after of the most
\* recent CLOSED record, or INITIAL_CAPITAL when there is none, and that
\* capital is a defined number.
C2_LoadReturnsLastClosedCapital ==
    /\ load_state(ledger).capital = LastClosedCapital(ledger)
    /\ IsNum(load_state(ledger).capital)

\* C3: a run that loads an OPEN record and obtains a price appends exactly
\* one row, a CLOSED one, breach or no breach.
C3_OpenTradeIsClosed ==
    [][(load_state(ledger).open_trade # None /\ spot' # None)
         => /\ AppendedOne(ledger, ledger')
            /\ LastStatus(ledger') = "CLOSED"]_vars

\* a run closed a trade whose spot stayed between the short strikes
C3_Witness ==
    /\ report = "Trade closed"
    /\ open_trade # None
    /\ Le(open_trade.short_put, spot) /\ Le(spot, open_trade.short_call)
    /\ LastStatus(ledger) = "CLOSED"

\* the OPEN rows of the file that no later CLOSED row of the same trade follows
UnclosedOpens(file) ==
    {i \in 1..Len(file) :
        /\ file[i].status = "OPEN"
        /\ ~ \E j \in (i + 1)..Len(file) :
               file[j].status = "CLOSED" /\ SameTrade(file[i], file[j])}

\* C4: the ledger never holds two OPEN records that have not each been
\* followed by their CLOSED record.
C4_AtMostOneOpenTrade == Cardinality(UnclosedOpens(ledger)) <= 1

\* a run found the trade open and left it the only open one
C4_Witness ==
    /\ Cardinality(UnclosedOpens(ledger)) = 1
    /\ report = "Trade continues"

\* C5: every run keeps the rows already written, in order, and adds at most
\* one row at the end.
C5_AppendOnly ==
    [][ledger' = ledger \/ AppendedOne(ledger, ledger')]_vars

\* a trade was closed and its OPEN row is still the first row of the file
C5_Witness ==
    /\ report = "Trade closed"
    /\ Len(ledger) >= 2
    /\ ledger[1].status = "OPEN"
    /\ SameTrade(ledger[1], FromCsvRow(ledger[Len(ledger)]))

\* C6: a run that gets no price writes nothing; if a trade was open, the
\* next run loads the same OPEN record and, given a price, closes that record.
C6_NoPriceNoRow ==
    [][/\ spot' = None => ledger' = ledger
       /\ (report = "Trade continues" /\ spot = None)
            => /\ open_trade' = open_trade
               /\ spot' # None => /\ AppendedOne(ledger, ledger')
                                  /\ LastStatus(ledger') = "CLOSED"
                                  /\ SameTrade(ledger'[Len(ledger')], open_trade)]_vars

\* a run with a trade open got no price and left the file as it was
C6_Witness ==
    /\ report = "Trade continues"
    /\ spot = None
    /\ open_trade # None
    /\ LastStatus(ledger) = "OPEN"

-----------------------------------------------------------------------------
(* The builder and the evaluator on their own (specification SpecFn):      *)
(* enter_trade is applied to a capital and a fetched price, the row goes   *)
(* through the file, and exit_logic is applied to it at a second price.    *)

\* capitals enter_trade is applied to
FnCapitalTicks == {50000, 100000, 1000000}

\* prices enter_trade sees
FnSpotTicks == {1, 18000, 20000, 22000, 40000}

\* prices exit_logic sees: the strikes of an entry at 20000, their
\* neighbours and points inside each region
FnExitTicks ==
    {18000, 18499, 18500, 18501, 19000, 19499, 19500, 19501, 20000,
     20499, 20500, 20501, 21000, 21499, 21500, 21501, 22000}

FnCapitals == {Num(i) : i \in FnCapitalTicks}
FnSpots == {Num(i) : i \in FnSpotTicks} \cup {None}
FnExitSpots == {Num(i) : i \in FnExitTicks} \cup {None}

FnInit ==
    /\ ledger = <<>>
    /\ capital = None
    /\ open_trade = None
    /\ spot = None
    /\ report = "not run"
    /\ fn_pc = "input"
    /\ fn_capital \in FnCapitals
    /\ fn_spot \in FnSpots
    /\ fn_row = None
    /\ fn_exit_spot = None
    /\ fn_exit = None
    /\ OvIdle

\* new_trade = enter_trade(capital)
FnBuild ==
    /\ fn_pc = "input"
    /\ fn_row' = enter_trade(fn_capital, fn_spot)
    /\ fn_pc' = "built"
    /\ UNCHANGED <<fn_capital, fn_spot, fn_exit_spot, fn_exit>>
    /\ UNCHANGED runVars
    /\ UNCHANGED ovVars

\* the row as load_state hands it to exit_logic: written by save_trade_row,
\* read by read_csv
FnLoaded(row) == FromCsvRow(ToCsvRow(row))

\* exit_row, new_capital = exit_logic(open_trade, capital)
FnEvaluate(price) ==
    /\ fn_pc = "built"
    /\ fn_row # None
    /\ fn_exit_spot' = price
    /\ fn_exit' = exit_logic(FnLoaded(fn_row), fn_capital, price)
    /\ fn_pc' = "evaluated"
    /\ UNCHANGED <<fn_capital, fn_spot, fn_row>>
    /\ UNCHANGED runVars
    /\ UNCHANGED ovVars

NextFn == FnBuild \/ \E price \in FnExitSpots : FnEvaluate(price)

SpecFn == FnInit /\ [][NextFn]_vars

-----------------------------------------------------------------------------
(* Properties of the strikes *)

Zero == Num(0)

\* short_put < long_put < entry_price < short_call < long_call
PutWingInside(r) ==
    /\ Lt(r.short_put, r.long_put)
    /\ Lt(r.long_put, r.entry_price)
    /\ Lt(r.entry_price, r.short_call)
    /\ Lt(r.short_call, r.long_call)

\* long_put < short_put < entry_price < short_call < long_call
WingsOutside(r) ==
    /\ Lt(r.long_put, r.short_put)
    /\ Lt(r.short_put, r.entry_price)
    /\ Lt(r.entry_price, r.short_call)
    /\ Lt(r.short_call, r.long_call)

\* C7 as stated: every record the builder wrote has
\* short_put < long_put < entry_price < short_call < long_call.
C7_LongPutAboveShortPut ==
    \A i \in 1..Len(ledger) :
        ledger[i].status = "OPEN" => PutWingInside(ledger[i])

\* C7 as amended: every record the builder wrote from a positive spot has
\* long_put < short_put < entry_price < short_call < long_call.
C7_LedgerStrikesOrdered ==
    \A i \in 1..Len(ledger) :
        (ledger[i].status = "OPEN" /\ Gt(ledger[i].entry_price, Zero))
            => WingsOutside(ledger[i])

\* a run has written the OPEN record of an entry at 20000
C7_Witness ==
    /\ report = "New trade opened"
    /\ LastStatus(ledger) = "OPEN"
    /\ ledger[Len(ledger)].entry_price = Num(20000)
    /\ ledger[Len(ledger)].long_put = Num(18500)

\* C8: for every spot > 0 and capital > 0 the record enter_trade returns has
\* long_put < short_put < entry_price < short_call < long_call.
C8_BuiltStrikesOrdered ==
    (fn_pc # "input" /\ Gt(fn_spot, Zero) /\ Gt(fn_capital, Zero))
        => /\ fn_row # None
           /\ fn_row.entry_price = fn_spot
           /\ WingsOutside(fn_row)

\* enter_trade has returned the record of spot 22000 and capital 50000
C8_Witness ==
    /\ fn_pc = "built"
    /\ fn_spot = Num(22000)
    /\ fn_capital = Num(50000)
    /\ fn_row # None
    /\ fn_row.status = "OPEN"

-----------------------------------------------------------------------------
(* Properties of the pnl *)

\* the pnl of section 4.3 as one function of spot, by region
PiecewisePnl(r, price) ==
    LET max_loss == Sub(Mul(Mul(WING_WIDTH_PCT, r.entry_price), DEPLOY_FRACTION),
                        Div(r.credit, Two))
    IN CASE Le(r.short_put, price) /\ Le(price, r.short_call) -> r.credit
         [] Ge(price, r.long_call) \/ Le(price, r.long_put) -> Neg(max_loss)
         [] Lt(r.short_call, price) /\ Lt(price, r.long_call) ->
                Sub(r.credit,
                    Mul(Div(Sub(price, r.short_call), Sub(r.long_call, r.short_call)),
                        max_loss))
         [] Lt(r.long_put, price) /\ Lt(price, r.short_put) ->
                Sub(r.credit,
                    Mul(Div(Sub(r.short_put, price), Sub(r.short_put, r.long_put)),
                        max_loss))

\* C9: the pnl exit_logic writes is the piecewise function of the spot:
\* credit between the short strikes (ends included), -max_loss at or beyond
\* a long strike, credit - pct * max_loss strictly inside a wing.
C9_PnlIsPiecewise ==
    (fn_pc = "evaluated" /\ fn_exit_spot # None)
        => /\ fn_exit.row # None
           /\ fn_exit.row.pnl = PiecewisePnl(FnLoaded(fn_row), fn_exit_spot)
           /\ fn_exit_spot \in {fn_row.entry_price, fn_row.short_call}
                => fn_exit.row.pnl = fn_row.credit
           /\ fn_exit_spot \in {fn_row.long_call, fn_row.long_put}
                => fn_exit.row.pnl = Neg(max_loss_of(FnLoaded(fn_row)))

\* exit_logic has evaluated a trade at exactly its long call, for the full loss
C9_Witness ==
    /\ fn_pc = "evaluated"
    /\ fn_exit_spot = fn_row.long_call
    /\ fn_exit.row.pnl = Neg(max_loss_of(FnLoaded(fn_row)))
    /\ fn_exit.row.pnl # fn_row.credit

AbsNum(x) == IF Lt(x, Zero) THEN Neg(x) ELSE x

\* C10: no jump at either end of the call wing.  Inside the wing the pnl is
\* linear in spot with slope -max_loss / (long_call - short_call), so it is
\* continuous at an end exactly when its distance from the pnl at that end is
\* at most |slope| times the distance of spot from that end.
C10_CallWingContinuous ==
    LET r == FnLoaded(fn_row)
        width == Sub(r.long_call, r.short_call)
        slope == AbsNum(Div(max_loss_of(r), width))
        here == fn_exit.row.pnl
        atShort == exit_pnl(r, r.short_call)
        atLong == exit_pnl(r, r.long_call)
    IN (/\ fn_pc = "evaluated"
        /\ fn_exit_spot # None
        /\ Lt(r.short_call, fn_exit_spot)
        /\ Lt(fn_exit_spot, r.long_call))
         => /\ Le(AbsNum(Sub(here, atShort)), Mul(slope, Sub(fn_exit_spot, r.short_call)))
            /\ Le(AbsNum(Sub(here, atLong)), Mul(slope, Sub(r.long_call, fn_exit_spot)))

-----------------------------------------------------------------------------
(* Credit as the largest profit *)

\* C11: the pnl of every CLOSED record the runs write is at most the credit
\* of the record (credit is the maximum possible profit).
C11_PnlAtMostCredit ==
    \A i \in 1..Len(ledger) :
        ledger[i].status = "CLOSED" => Le(ledger[i].pnl, ledger[i].credit)

-----------------------------------------------------------------------------
(* The scenario capital = 1,000,000, spot = 20,000 *)

\* floating tolerance of the scenario, 1e-6
Tolerance == Rat(1, 1000000)

Near(x, y) == Le(AbsNum(Sub(x, y)), Tolerance)

ScenarioBuilt ==
    /\ fn_pc # "input"
    /\ fn_capital = Num(1000000)
    /\ fn_spot = Num(20000)

\* C12 as stated: the scenario yields notional 600,000, credit 7,200,
\* short_call 20,500, short_put 19,500, long_call 21,525.6, long_put 18,461.5.
C12_ScenarioAsStated ==
    ScenarioBuilt
        => /\ Near(fn_row.credit, Mul(CREDIT_PCT, Num(600000)))
           /\ Near(fn_row.credit, Num(7200))
           /\ Near(fn_row.short_call, Num(20500))
           /\ Near(fn_row.short_put, Num(19500))
           /\ Near(fn_row.long_call, Rat(215256, 10))
           /\ Near(fn_row.long_put, Rat(184615, 10))

\* C12 as amended: the scenario yields notional 600,000, credit 7,200,
\* short_call 20,500, short_put 19,500, long_call 21,500, long_put 18,500.
C12_ScenarioValues ==
    ScenarioBuilt
        => /\ fn_row # None
           /\ Near(fn_row.credit, Mul(CREDIT_PCT, Num(600000)))
           /\ Near(fn_row.credit, Num(7200))
           /\ Near(fn_row.short_call, Num(20500))
           /\ Near(fn_row.short_put, Num(19500))
           /\ Near(fn_row.long_call, Num(21500))
           /\ Near(fn_row.long_put, Num(18500))

\* enter_trade has returned the record of the scenario
C12_Witness ==
    /\ fn_pc = "built"
    /\ ScenarioBuilt
    /\ fn_row # None
    /\ fn_row.entry_price = Num(20000)
    /\ fn_row.exit_price = Empty

-----------------------------------------------------------------------------
(* Overlapping runs (specification SpecOverlap): two processes run the     *)
(* script; each loads the file in one step and, in a later step, fetches   *)
(* the price and saves its row.  The script takes no lock on the file.     *)

\* prices the overlapping runs fetch
OvPriceTicks == {20000, 21000}

OvFetched == {Num(i) : i \in OvPriceTicks} \cup {None}

\* __main__ after load_state has returned st: the file it leaves behind
main_after_load(file, st, price) ==
    IF st.open_trade = None
    THEN LET new_trade == enter_trade(st.capital, price)
         IN IF new_trade # None THEN save_trade_row(file, new_trade) ELSE file
    ELSE LET ex == exit_logic(st.open_trade, st.capital, price)
         IN IF ex.row # None THEN save_trade_row(file, ex.row) ELSE file

\* df, capital, open_trade = load_state()
OvLoad(r) ==
    /\ ov_pc[r] = "idle"
    /\ Len(ledger) < MaxRows
    /\ ov_loaded' = [ov_loaded EXCEPT ![r] = load_state(ledger)]
    /\ ov_pc' = [ov_pc EXCEPT ![r] = "loaded"]
    /\ ov_overlap' = (ov_overlap \/ \E q \in Runs \ {r} : ov_pc[q] = "loaded")
    /\ UNCHANGED runVars
    /\ UNCHANGED fnVars

\* the rest of __main__: the price is fetched and the row, if any, is saved
OvFinish(r, price) ==
    /\ ov_pc[r] = "loaded"
    /\ ledger' = main_after_load(ledger, ov_loaded[r], price)
    /\ ov_pc' = [ov_pc EXCEPT ![r] = "idle"]
    /\ ov_loaded' = [ov_loaded EXCEPT ![r] = None]
    /\ UNCHANGED <<capital, open_trade, spot, report, ov_overlap>>
    /\ UNCHANGED fnVars

NextOverlap ==
    \E r \in Runs : OvLoad(r) \/ \E price \in OvFetched : OvFinish(r, price)

SpecOverlap == Init /\ [][NextOverlap]_vars

\* C13: two OPEN records that are both unclosed appear in the ledger only
\* when runs have overlapped (and, by the witness, they do appear then):
\* nothing in the script protects the single open position.
C13_TwoOpensOnlyByOverlap ==
    Cardinality(UnclosedOpens(ledger)) >= 2 => ov_overlap

\* two runs loaded the empty ledger before either saved, and both saved an
\* OPEN record
C13_Witness ==
    /\ Len(ledger) = 2
    /\ ledger[1].status = "OPEN"
    /\ ledger[2].status = "OPEN"
    /\ ov_overlap
    /\ \A r \in Runs : ov_pc[r] = "idle"

-----------------------------------------------------------------------------
(* The CLOSED record *)

\* C14: the CLOSED record a run appends copies entry_price, the four strikes
\* and credit from the OPEN record it closes, and has status CLOSED,
\* exit_price = spot, pnl a number, and capital_after = capital + pnl for the
\* capital the run loaded (and for any capital handed to exit_logic).
C14_ClosedCopiesOpen ==
    report = "Trade closed"
        => LET line == ledger[Len(ledger)]
               row == FromCsvRow(line)
           IN /\ SameTrade(row, open_trade)
              /\ row.status = "CLOSED"
              /\ row.exit_price = spot
              /\ IsNum(row.pnl)
              /\ row.pnl = exit_logic(open_trade, capital, spot).row.pnl
              /\ line.capital_after = ToCsvCell(Add(capital, row.pnl))
              /\ \A cap \in FnCapitals :
                    LET ex == exit_logic(open_trade, cap, spot)
                    IN /\ ex.row.capital_after = Add(cap, row.pnl)
                       /\ ex.new_capital = Add(cap, row.pnl)
                       /\ IsNum(ex.row.capital_after)

\* a run closed the trade entered at 20000 at a spot of 21000
C14_Witness ==
    /\ report = "Trade closed"
    /\ spot = Num(21000)
    /\ open_trade.entry_price = Num(20000)
    /\ ledger[Len(ledger)].entry_price = Num(20000)
    /\ ledger[Len(ledger)].exit_price = Num(21000)

-----------------------------------------------------------------------------
(* The wings *)

C16_NoDoubleBreach ==
    (fn_pc = "evaluated" /\ fn_exit_spot # None /\ Gt(fn_spot, Zero))
        => LET r == FnLoaded(fn_row)
           IN /\ ~ (Gt(fn_exit_spot, r.short_call) /\ Lt(fn_exit_spot, r.short_put))
              /\ Gt(fn_exit_spot, r.short_call)
                    => fn_exit.row.pnl = call_side_pnl(r, fn_exit_spot)

\* exit_logic has evaluated a spot inside the call wing, and the call-side
\* pnl, which is not the default, was returned
C16_Witness ==
    /\ fn_pc = "evaluated"
    /\ fn_exit_spot # None
    /\ Gt(fn_exit_spot, fn_row.short_call)
    /\ Lt(fn_exit_spot, fn_row.long_call)
    /\ fn_exit.row.pnl = call_side_pnl(FnLoaded(fn_row), fn_exit_spot)
    /\ fn_exit.row.pnl # fn_row.credit

-----------------------------------------------------------------------------
(* The ledger as a history of trades *)

\* the CLOSED rows after row i that replicate it
ClosuresOf(file, i) ==
    {j \in (i + 1)..Len(file) :
        file[j].status = "CLOSED" /\ SameTrade(file[i], file[j])}

\* C17: every OPEN record is followed by at most one CLOSED record that
\* replicates it, and the rows alternate OPEN, CLOSED, OPEN, CLOSED.
C17_EachTradeClosedOnce ==
    /\ \A i \in 1..Len(ledger) :
          ledger[i].status = "OPEN" => Cardinality(ClosuresOf(ledger, i)) <= 1
    /\ \A i \in 1..Len(ledger) :
          ledger[i].status = (IF i % 2 = 1 THEN "OPEN" ELSE "CLOSED")

\* the sum of the pnl of the CLOSED rows among the first n rows
RECURSIVE BookedPnl(_, _)
BookedPnl(df, n) ==
    IF n = 0 THEN Zero
    ELSE IF df[n].status = "CLOSED"
         THEN Add(BookedPnl(df, n - 1), df[n].pnl)
         ELSE BookedPnl(df, n - 1)

\* C18: the capital_after of every CLOSED record is a defined number, equal
\* to INITIAL_CAPITAL plus the pnl of all CLOSED records up to and including it.
C18_RunningCapital ==
    LET df == read_csv(ledger)
    IN \A i \in 1..Len(ledger) :
          df[i].status = "CLOSED"
              => /\ IsNum(df[i].capital_after)
                 /\ df[i].capital_after = Add(INITIAL_CAPITAL, BookedPnl(df, i))

====
